---- MODULE Spec2Model ----
(***************************************************************************)
(* openfe: LigandMolecule (setup/ligandmolecule.py) and the LigandAtomMapper *)
(* protocol exercised by tests/setup/test_atommapper.py.                   *)
(*                                                                         *)
(* An rdkit Mol is a record [struct, props]: struct is the molecular graph  *)
(* (atoms, bonds, coordinates) and props the property dictionary, kept as  *)
(* the insertion-ordered sequence of <<key, value>> pairs that GetPropNames *)
(* reports.  The heap holds the live Mol objects; a LigandMolecule holds    *)
(* the index of its _rdkit object and its cached _hash.                     *)
(***************************************************************************)
EXTENDS Integers, Sequences, FiniteSets

\* ---------------------------------------------------------------- bounds
MaxObjs == 2
MaxLigs == 3
MaxRecs == 2
MaxGen == 3

\* ------------------------------------------------------------- universes
Names == {"", "A", "B"}
Structs == {"OC", "CC"}
OfeVersion == "0.1"
HashBits == 2
HashMod == 2 ^ HashBits

VARIABLES heap, ligs, sdf, last,
          mcls, mgen, mpc, mpos, mout, merr

ligvars == <<heap, ligs, sdf, last>>
mapvars == <<mcls, mgen, mpc, mpos, mout, merr>>
vars == <<heap, ligs, sdf, last, mcls, mgen, mpc, mpos, mout, merr>>

\* ------------------------------------------------- rdkit Mol (collaborator)
HasProp(mol, key) ==
    \E i \in 1..Len(mol.props) : mol.props[i][1] = key

PropIdx(mol, key) ==
    CHOOSE i \in 1..Len(mol.props) : mol.props[i][1] = key

\* mol.GetProp(key): the value, or KeyError when the key is absent
GetProp(mol, key) ==
    IF HasProp(mol, key)
    THEN [exc |-> "none", val |-> mol.props[PropIdx(mol, key)][2]]
    ELSE [exc |-> "KeyError", val |-> ""]

\* mol.SetProp(key, val): overwrite in place, or append a new entry
SetProp(mol, key, val) ==
    IF HasProp(mol, key)
    THEN [mol EXCEPT !.props[PropIdx(mol, key)] = <<key, val>>]
    ELSE [mol EXCEPT !.props = Append(@, <<key, val>>)]

\* Chem.MolToSmiles: the canonical SMILES of a molecular graph
CanonSmiles(struct) ==
    IF struct = "OC" THEN "CO" ELSE struct

\* ------------------------------------------------------ ligandmolecule.py
\* _ensure_ofe_name with the two tags read in the other order: _Name wins
_ensure_ofe_name_legacy_first(mol, name) ==
    LET p1 == GetProp(mol, "ofe-name")
        n1 == IF p1.exc = "KeyError" THEN "" ELSE p1.val
        p2 == GetProp(mol, "_Name")
        rdkit_name == IF p2.exc = "KeyError" THEN n1 ELSE p2.val
        warned == name # "" /\ rdkit_name # "" /\ rdkit_name # name
        resolved == IF warned THEN name
                    ELSE IF name = "" THEN rdkit_name ELSE name
    IN  [mol |-> SetProp(mol, "ofe-name", resolved),
         name |-> resolved,
         warned |-> warned]

\* _ensure_ofe_name comparing the explicit name with the _Name tag only
_ensure_ofe_name_legacy_conflict(mol, name) ==
    LET p1 == GetProp(mol, "_Name")
        n1 == IF p1.exc = "KeyError" THEN "" ELSE p1.val
        p2 == GetProp(mol, "ofe-name")
        rdkit_name == IF p2.exc = "KeyError" THEN n1 ELSE p2.val
        warned == name # "" /\ n1 # "" /\ n1 # name
        resolved == IF name = "" THEN rdkit_name ELSE name
    IN  [mol |-> SetProp(mol, "ofe-name", resolved),
         name |-> resolved,
         warned |-> warned]

_ensure_ofe_name(mol, name) ==
    LET p1 == GetProp(mol, "_Name")
        n1 == IF p1.exc = "KeyError" THEN "" ELSE p1.val
        p2 == GetProp(mol, "ofe-name")
        rdkit_name == IF p2.exc = "KeyError" THEN n1 ELSE p2.val
        warned == name # "" /\ rdkit_name # "" /\ rdkit_name # name
        resolved == IF warned THEN name
                    ELSE IF name = "" THEN rdkit_name ELSE name
    IN  [mol |-> SetProp(mol, "ofe-name", resolved),
         name |-> resolved,
         warned |-> warned]

_ensure_ofe_version(mol) ==
    SetProp(mol, "ofe-version", OfeVersion)

hashmol(mol, name) ==
    [smiles |-> CanonSmiles(mol.struct), name |-> name]

\* LigandMolecule.__init__ on the Mol it is handed: the stamped Mol (the
\* same object, mutated), the cached _hash and whether a warning was issued
__init__(mol, name) ==
    LET r == _ensure_ofe_name(mol, name)
        stamped == _ensure_ofe_version(r.mol)
    IN  [rdkit |-> stamped,
         hash |-> hashmol(stamped, r.name),
         warned |-> r.warned]

\* Chem.Mol(mol): an independent copy, properties included
ChemMol(mol) ==
    [struct |-> mol.struct, props |-> mol.props]

\* hash() of the (smiles, name) object: a hash of HashBits bits, combined
\* from the hashes of its two strings
StrHash(s) ==
    CASE s = "" -> 0 [] s = "A" -> 1 [] s = "B" -> 2
      [] s = "CO" -> 3 [] s = "CC" -> 4 [] OTHER -> 5

PyHash(h) ==
    (StrHash(h.smiles) * 3 + StrHash(h.name)) % HashMod

\* LigandMolecule.__hash__ and LigandMolecule.__eq__ (like name and smiles,
\* they only read the cached _hash)
__hash__(lig) ==
    PyHash(lig.hash)

__eq__(lig, other) ==
    __hash__(lig) = __hash__(other)

\* properties starting with an underscore are private: GetPropNames()
\* leaves them out
IsPrivate(key) ==
    key = "_Name"

GetPropNames(mol) ==
    SelectSeq(mol.props, LAMBDA p : ~IsPrivate(p[1]))

\* Chem.MolToMolBlock: the structure block; its title line is _Name
MolToMolBlock(mol) ==
    [struct |-> mol.struct,
     title |-> IF HasProp(mol, "_Name") THEN GetProp(mol, "_Name").val ELSE ""]

\* LigandMolecule.to_sdf on the wrapped Mol: one SDF record, the block
\* followed by one data item per reported property, then $$$$
to_sdf(rdkit) ==
    LET mol == ChemMol(rdkit)
        blk == MolToMolBlock(mol)
    IN  << [ok |-> TRUE, struct |-> blk.struct, title |-> blk.title,
            tags |-> GetPropNames(mol)] >>

\* the Mol an SDMolSupplier builds from a parseable record: _Name from the
\* title line, then every data item in file order
RECURSIVE SetProps(_, _)
SetProps(mol, tags) ==
    IF tags = << >> THEN mol
    ELSE SetProps(SetProp(mol, Head(tags)[1], Head(tags)[2]), Tail(tags))

ParseRecord(rec) ==
    SetProps([struct |-> rec.struct, props |-> << <<"_Name", rec.title>> >>],
             rec.tags)

\* next(supp) with pos records already consumed
SuppNext(recs, pos) ==
    IF pos >= Len(recs) THEN [kind |-> "StopIteration"]
    ELSE IF ~recs[pos + 1].ok THEN [kind |-> "None"]
    ELSE [kind |-> "mol", mol |-> ParseRecord(recs[pos + 1])]

\* _from_sdf_supplier without the second next(): the first record is used
_from_sdf_supplier_first_only(recs) ==
    LET first == SuppNext(recs, 0)
    IN  IF first.kind = "StopIteration" THEN [exc |-> "StopIteration"]
        ELSE IF first.kind = "None" THEN [exc |-> "ValueError"]
        ELSE [exc |-> "none", mol |-> first.mol]

\* LigandMolecule._from_sdf_supplier: the exception raised, or the Mol that
\* is handed to cls(rdkit=mol)
_from_sdf_supplier(recs) ==
    LET first == SuppNext(recs, 0)
        second == SuppNext(recs, 1)
    IN  IF first.kind = "StopIteration" THEN [exc |-> "StopIteration"]
        ELSE IF first.kind = "None" THEN [exc |-> "ValueError"]
        ELSE IF second.kind # "StopIteration" THEN [exc |-> "RuntimeError"]
        ELSE [exc |-> "none", mol |-> first.mol]

\* ------------------------------------------------------------ caller inputs
OptProp(key, vals) ==
    {<< >>} \cup { << <<key, v>> >> : v \in vals }

\* Mols the caller may build in the toolkit before wrapping them
InputMols ==
    { [struct |-> s, props |-> n \o o] :
        s \in Structs,
        n \in OptProp("_Name", {"", "A"}),
        o \in OptProp("ofe-name", Names) }

\* an SDF record whose structure block does not parse
BadRecord == [ok |-> FALSE, struct |-> "", title |-> "", tags |-> << >>]

InputRecords ==
    {BadRecord} \cup
    { [ok |-> TRUE, struct |-> s, title |-> t, tags |-> g] :
        s \in Structs, t \in {"", "A"}, g \in OptProp("ofe-name", {"B"}) }

RECURSIVE SeqsUpTo(_, _)
SeqsUpTo(S, n) ==
    IF n = 0 THEN {<< >>}
    ELSE LET shorter == SeqsUpTo(S, n - 1)
         IN  shorter \cup { Append(q, x) : q \in shorter, x \in S }

\* SDF texts the caller may write by hand: 0..MaxRecs records
InputTexts == SeqsUpTo(InputRecords, MaxRecs)

\* ------------------------------------------------------------------- state
\* what the last call was and what it gave back: op, the exception raised
\* ("none" when it returned), the heap index of the Mol argument, the name
\* argument, the index of the instance returned, the instance a text came
\* from, and whether warnings.warn was called
Result(op, exc, obj, name, lig, other, warned) ==
    [op |-> op, exc |-> exc, obj |-> obj, name |-> name, lig |-> lig,
     other |-> other, warned |-> warned]

NoResult == Result("start", "none", 0, "", 0, 0, FALSE)

NoText == [text |-> << >>, of |-> 0]

\* objects the caller holds a reference to: the Mols it built itself and
\* the ones to_rdkit returned to it
CallerHeld ==
    { o \in 1..Len(heap) : heap[o].origin \in {"caller", "returned"} }

NoError == [type |-> "none", cls |-> "", method |-> ""]

MapIdle ==
    /\ mcls = "LigandAtomMapper" /\ mgen = << >> /\ mpc = "idle"
    /\ mpos = 0 /\ mout = << >> /\ merr = NoError

Init ==
    /\ \E m \in InputMols : heap = << [mol |-> m, origin |-> "caller"] >>
    /\ ligs = << >>
    /\ sdf = NoText
    /\ last = NoResult
    /\ MapIdle

\* --------------------------------------------------------------- operations
\* LigandMolecule(rdkit, name): the constructor keeps the Mol it is handed
Construct(o, name) ==
    /\ o \in CallerHeld
    /\ Len(ligs) < MaxLigs
    /\ LET r == __init__(heap[o].mol, name)
       IN  /\ heap' = [heap EXCEPT ![o].mol = r.rdkit]
           /\ ligs' = Append(ligs, [rdkit |-> o, hash |-> r.hash])
           /\ last' = Result("init", "none", o, name, Len(ligs) + 1, 0,
                             r.warned)
    /\ UNCHANGED <<sdf, mapvars>>

\* from_rdkit handing the caller's own Mol to the constructor
from_rdkit_no_copy(o, name) ==
    /\ o \in CallerHeld
    /\ Len(ligs) < MaxLigs
    /\ LET r == __init__(heap[o].mol, name)
       IN  /\ heap' = [heap EXCEPT ![o].mol = r.rdkit]
           /\ ligs' = Append(ligs, [rdkit |-> o, hash |-> r.hash])
           /\ last' = Result("from_rdkit", "none", o, name, Len(ligs) + 1, 0,
                             r.warned)
    /\ UNCHANGED <<sdf, mapvars>>

\* LigandMolecule.from_rdkit(rdkit, name): cls(rdkit=Chem.Mol(rdkit), name)
from_rdkit(o, name) ==
    /\ o \in CallerHeld
    /\ Len(ligs) < MaxLigs
    /\ Len(heap) < MaxObjs
    /\ LET r == __init__(ChemMol(heap[o].mol), name)
       IN  /\ heap' = Append(heap, [mol |-> r.rdkit, origin |-> "copy"])
           /\ ligs' = Append(ligs, [rdkit |-> Len(heap) + 1, hash |-> r.hash])
           /\ last' = Result("from_rdkit", "none", o, name, Len(ligs) + 1, 0,
                             r.warned)
    /\ UNCHANGED <<sdf, mapvars>>

\* LigandMolecule.to_rdkit(): a copy handed to the caller
to_rdkit(i) ==
    /\ i \in 1..Len(ligs)
    /\ Len(heap) < MaxObjs
    /\ heap' = Append(heap, [mol |-> ChemMol(heap[ligs[i].rdkit].mol),
                             origin |-> "returned"])
    /\ last' = Result("to_rdkit", "none", Len(heap) + 1, "", i, 0, FALSE)
    /\ UNCHANGED <<ligs, sdf, mapvars>>

Wrapped(o) ==
    \E i \in 1..Len(ligs) : ligs[i].rdkit = o

\* the caller edits a Mol that to_rdkit returned to it: a property, or (once
\* per key choice "_Name") the structure itself
MutateReturned(o, key, val) ==
    /\ o \in 1..Len(heap)
    /\ heap[o].origin = "returned"
    /\ ~Wrapped(o)
    /\ \/ heap' = [heap EXCEPT ![o].mol = SetProp(@, key, val)]
       \/ /\ key = "_Name"
          /\ \E s \in Structs \ {heap[o].mol.struct} :
                heap' = [heap EXCEPT ![o].mol.struct = s]
    /\ last' = Result("mutate", "none", o, "", 0, 0, FALSE)
    /\ UNCHANGED <<ligs, sdf, mapvars>>

\* LigandMolecule.from_sdf_string(text) / from_sdf_file(file holding text):
\* build the supplier, then _from_sdf_supplier; of is the instance whose
\* to_sdf wrote the text (0 for a text written by hand)
Deserialize(op, text, of) ==
    LET r == _from_sdf_supplier(text)
    IN  /\ IF r.exc # "none"
           THEN /\ last' = Result(op, r.exc, 0, "", 0, of, FALSE)
                /\ UNCHANGED <<heap, ligs>>
           ELSE /\ Len(ligs) < MaxLigs
                /\ Len(heap) < MaxObjs
                /\ LET c == __init__(r.mol, "")
                   IN  /\ heap' = Append(heap, [mol |-> c.rdkit,
                                                origin |-> "parsed"])
                       /\ ligs' = Append(ligs, [rdkit |-> Len(heap) + 1,
                                                hash |-> c.hash])
                       /\ last' = Result(op, "none", Len(heap) + 1, "",
                                         Len(ligs) + 1, of, c.warned)
        /\ UNCHANGED mapvars

\* LigandMolecule.from_sdf_string(x.to_sdf())
RoundTrip(i) ==
    /\ i \in 1..Len(ligs)
    /\ Deserialize("from_sdf_string", to_sdf(heap[ligs[i].rdkit].mol), i)
    /\ UNCHANGED sdf

Next ==
    \/ \E o \in 1..MaxObjs, n \in Names : Construct(o, n)
    \/ \E o \in 1..MaxObjs, n \in Names : from_rdkit(o, n)
    \/ \E i \in 1..MaxLigs : to_rdkit(i)
    \/ \E o \in 1..MaxObjs, k \in {"_Name", "ofe-name"}, v \in {"B"} :
          MutateReturned(o, k, v)
    \/ \E i \in 1..MaxLigs : RoundTrip(i)

Spec == Init /\ [][Next]_vars

\* ------------------------------------------- deserializing hand-written SDF
\* the caller holds one text of InputTexts and deserializes it, from the
\* string or from a file it wrote the string to
SdfInit ==
    /\ heap = << >>
    /\ ligs = << >>
    /\ \E t \in InputTexts : sdf = [text |-> t, of |-> 0]
    /\ last = NoResult
    /\ MapIdle

from_sdf_string ==
    /\ Deserialize("from_sdf_string", sdf.text, 0)
    /\ UNCHANGED sdf

from_sdf_file ==
    /\ Deserialize("from_sdf_file", sdf.text, 0)
    /\ UNCHANGED sdf

SdfNext ==
    \/ from_sdf_string
    \/ from_sdf_file

SdfSpec == SdfInit /\ [][SdfNext]_vars

\* ------------------------------------------------------ LigandAtomMapper
\* the mapper classes: the base class used directly, a subclass that does
\* not override _mappings_generator, and a subclass that does
MapperClasses == {"LigandAtomMapper", "BareSubclass", "ConcreteLigandAtomMapper"}

Overrides(cls) ==
    cls = "ConcreteLigandAtomMapper"

\* atom correspondences (mol1 index -> mol2 index), as sets of pairs
Correspondences == { {<<0, 0>>, <<1, 1>>}, {<<0, 1>>} }

LigandAtomMapping(mol1, mol2, mol1_to_mol2) ==
    [mol1 |-> mol1, mol2 |-> mol2, mol1_to_mol2 |-> mol1_to_mol2]

\* what a concrete generator goes through: the mappings it was configured
\* with, and possibly an error it raises on the way
GenErrors == {"ValueError"}

GenItems ==
    { LigandAtomMapping("mol1", "mol2", d) : d \in Correspondences }
    \cup { [raise |-> e] : e \in GenErrors }

Raises(item) ==
    "raise" \in DOMAIN item

\* a base implementation whose message names the base class, not the class
\* of the instance
_mappings_generator_base_name(cls) ==
    [type |-> "NotImplementedError", cls |-> "LigandAtomMapper",
     method |-> "_mappings_generator"]

\* LigandAtomMapper._mappings_generator, the base implementation
_mappings_generator(cls) ==
    [type |-> "NotImplementedError", cls |-> cls,
     method |-> "_mappings_generator"]

\* next() on the generation step of a mapper of class cls whose override
\* goes through gen and has handed out pos items
GenNext(cls, gen, pos) ==
    IF ~Overrides(cls)
    THEN [kind |-> "raise", err |-> _mappings_generator(cls)]
    ELSE IF pos >= Len(gen) THEN [kind |-> "stop"]
    ELSE IF Raises(gen[pos + 1])
    THEN [kind |-> "raise",
          err |-> [type |-> gen[pos + 1].raise, cls |-> cls, method |-> "override"]]
    ELSE [kind |-> "yield", val |-> gen[pos + 1].mol1_to_mol2]

\* suggest_mappings ending the sequence quietly when the generation step
\* raises
suggest_mappings_swallow(step, out) ==
    IF step.kind = "yield"
    THEN [pc |-> "running", err |-> NoError,
          out |-> Append(out, LigandAtomMapping("mol1", "mol2", step.val))]
    ELSE [pc |-> "done", err |-> NoError, out |-> out]

\* one next() on suggest_mappings(mol1, mol2): what it does with the
\* generation step's outcome
suggest_mappings(step, out) ==
    IF step.kind = "yield"
    THEN [pc |-> "running", err |-> NoError,
          out |-> Append(out, LigandAtomMapping("mol1", "mol2", step.val))]
    ELSE IF step.kind = "raise"
    THEN [pc |-> "raised", err |-> step.err, out |-> out]
    ELSE [pc |-> "done", err |-> NoError, out |-> out]

MapperInit ==
    /\ heap = << >> /\ ligs = << >> /\ sdf = NoText /\ last = NoResult
    /\ mcls \in MapperClasses
    /\ mgen \in IF Overrides(mcls) THEN SeqsUpTo(GenItems, MaxGen) ELSE {<< >>}
    /\ mpc = "idle"
    /\ mpos = 0
    /\ mout = << >>
    /\ merr = NoError

\* mapper.suggest_mappings(mol1, mol2): returns the lazy sequence
CallSuggest ==
    /\ mpc = "idle"
    /\ mpc' = "running"
    /\ UNCHANGED <<ligvars, mcls, mgen, mpos, mout, merr>>

\* the caller takes the next element of the returned sequence
Consume ==
    /\ mpc = "running"
    /\ LET r == suggest_mappings(GenNext(mcls, mgen, mpos), mout)
       IN  /\ mpc' = r.pc
           /\ merr' = r.err
           /\ mout' = r.out
           /\ mpos' = IF r.pc = "running" THEN mpos + 1 ELSE mpos
    /\ UNCHANGED <<ligvars, mcls, mgen>>

MapperNext ==
    \/ CallSuggest
    \/ Consume

MapperSpec == MapperInit /\ [][MapperNext]_vars

\* ================================================================= claims
WrappedMol(i) == heap[ligs[i].rdkit].mol

Constructing(r) == r.op \in {"init", "from_rdkit"}

Deserializing(r) == r.op \in {"from_sdf_string", "from_sdf_file"}

\* C1: for every instance x, from_sdf_string(x.to_sdf()) succeeds and gives
\* an instance with the same smiles and name as x, == x and with x's hash.
C1_RoundTrip ==
    (last.op = "from_sdf_string" /\ last.other # 0) =>
        /\ last.exc = "none"
        /\ ligs[last.lig].hash = ligs[last.other].hash
        /\ __eq__(ligs[last.lig], ligs[last.other])
        /\ __hash__(ligs[last.lig]) = __hash__(ligs[last.other])

\* the round trip does give x back whenever the Mol x wraps still carries
\* the name x was constructed with
RoundTripWhenNameTagIntact ==
    ( /\ last.op = "from_sdf_string" /\ last.other # 0
      /\ GetProp(WrappedMol(last.other), "ofe-name").val
            = ligs[last.other].hash.name ) =>
        /\ last.exc = "none"
        /\ ligs[last.lig].hash = ligs[last.other].hash

EqIsHashEquality ==
    \A i, j \in 1..Len(ligs) :
        /\ __eq__(ligs[i], ligs[i])
        /\ __eq__(ligs[i], ligs[j]) <=> __eq__(ligs[j], ligs[i])
        /\ (ligs[i].hash = ligs[j].hash) => __eq__(ligs[i], ligs[j])
        /\ __eq__(ligs[i], ligs[j]) <=> (__hash__(ligs[i]) = __hash__(ligs[j]))

\* the name the precedence rule gives: the explicit name when one is
\* supplied, else the ofe-name tag when present, else the _Name tag when
\* present, else the empty string
FirstSupplied(mol, name) ==
    IF name # "" THEN name
    ELSE IF HasProp(mol, "ofe-name") THEN GetProp(mol, "ofe-name").val
    ELSE IF HasProp(mol, "_Name") THEN GetProp(mol, "_Name").val
    ELSE ""

\* C3: construction (constructor or from_rdkit) resolves the name by the
\* precedence explicit name > ofe-name tag > _Name tag > "", and leaves the
\* wrapped Mol's ofe-name tag equal to the resolved name.
C3_NamePrecedence ==
    [][ Constructing(last') =>
          LET want == FirstSupplied(heap[last'.obj].mol, last'.name)
          IN  /\ ligs'[last'.lig].hash.name = want
              /\ GetProp(heap'[ligs'[last'.lig].rdkit].mol, "ofe-name")
                    = [exc |-> "none", val |-> want] ]_vars

\* no explicit name, a _Name tag "A" and an ofe-name tag "B": the name is "B"
C3_Witness ==
    /\ last.op = "init" /\ last.name = ""
    /\ GetProp(heap[last.obj].mol, "_Name").val = "A"
    /\ ligs[last.lig].hash.name = "B"
    /\ GetProp(WrappedMol(last.lig), "ofe-name").val = "B"

\* C4: once an instance is constructed, the Mol it wraps is never changed by
\* any later operation, and no two instances wrap the same Mol.
C4_WrappedNeverChanges ==
    [][ /\ \A i \in 1..Len(ligs) :
              /\ ligs'[i] = ligs[i]
              /\ heap'[ligs[i].rdkit].mol = heap[ligs[i].rdkit].mol
        /\ \A i, j \in 1..Len(ligs') :
              i # j => ligs'[i].rdkit # ligs'[j].rdkit ]_vars

\* what does hold: the cached (smiles, name) of an instance never changes,
\* and no operation other than the constructor changes a wrapped Mol
CachedHashNeverChanges ==
    [][ \A i \in 1..Len(ligs) :
          /\ ligs'[i] = ligs[i]
          /\ last'.op # "init" =>
                heap'[ligs[i].rdkit].mol = heap[ligs[i].rdkit].mol ]_vars

\* C5: from_rdkit(r, name) leaves the caller's Mol r as it was.
C5_FromRdkitKeepsInput ==
    [][ last'.op = "from_rdkit" =>
          heap'[last'.obj] = heap[last'.obj] ]_vars

\* from_rdkit renamed "A" to "B" on its copy; the caller's Mol still says
\* "A" and has no version stamp
C5_Witness ==
    /\ last.op = "from_rdkit" /\ last.name = "B" /\ last.warned
    /\ GetProp(heap[last.obj].mol, "ofe-name").val = "A"
    /\ ~HasProp(heap[last.obj].mol, "ofe-version")
    /\ GetProp(WrappedMol(last.lig), "ofe-name").val = "B"
    /\ HasProp(WrappedMol(last.lig), "ofe-version")

\* C6 as stated: a text of two or more records always raises RuntimeError.
C6_AlwaysRuntimeError ==
    (Deserializing(last) /\ Len(sdf.text) >= 2) =>
        last.exc = "RuntimeError"

\* C6, amended: a text of two or more records always raises and never
\* returns an instance: RuntimeError when its first record parses,
\* ValueError when it does not, whatever the later records hold.
C6_MultiRecordRaises ==
    (Deserializing(last) /\ Len(sdf.text) >= 2) =>
        /\ last.exc = IF sdf.text[1].ok THEN "RuntimeError" ELSE "ValueError"
        /\ last.lig = 0
        /\ ligs = << >>

\* two records, the second one unparseable: RuntimeError
C6_Witness ==
    /\ last.op = "from_sdf_string"
    /\ Len(sdf.text) = 2 /\ sdf.text[1].ok /\ ~sdf.text[2].ok
    /\ last.exc = "RuntimeError"

\* C7: a text from which no structure parses (no record at all, or only
\* unparseable records) raises ValueError.
C7_ZeroParseValueError ==
    (Deserializing(last) /\ \A k \in 1..Len(sdf.text) : ~sdf.text[k].ok) =>
        last.exc = "ValueError"

\* what does hold: with at least one record, none of them parseable, the
\* error is ValueError
UnparseableRecordsValueError ==
    ( /\ Deserializing(last) /\ sdf.text # << >>
      /\ \A k \in 1..Len(sdf.text) : ~sdf.text[k].ok ) =>
        last.exc = "ValueError"

\* the name construction discovers on its input: the ofe-name tag when
\* present, else the _Name tag when present, else none
Discovered(mol) ==
    IF HasProp(mol, "ofe-name") THEN GetProp(mol, "ofe-name").val
    ELSE IF HasProp(mol, "_Name") THEN GetProp(mol, "_Name").val
    ELSE ""

\* C10 as stated: a non-empty explicit name that differs from a name
\* recorded in the ofe-name tag or in the _Name tag of the input gives a
\* warning, no exception, and the explicit name.
C10_WarnsOnAnyRecordedName ==
    [][ ( /\ Constructing(last')
          /\ last'.name # ""
          /\ \E k \in {"ofe-name", "_Name"} :
                /\ HasProp(heap[last'.obj].mol, k)
                /\ GetProp(heap[last'.obj].mol, k).val \notin {"", last'.name} )
        => /\ last'.exc = "none"
           /\ last'.warned
           /\ ligs'[last'.lig].hash.name = last'.name ]_vars

\* C10, amended: a non-empty explicit name that differs from the non-empty
\* name discovered on the input (the ofe-name tag when present, otherwise
\* the _Name tag) gives a warning, no exception, and the explicit name.
C10_WarnsOnDiscoveredName ==
    [][ ( /\ Constructing(last')
          /\ last'.name # ""
          /\ Discovered(heap[last'.obj].mol) \notin {"", last'.name} )
        => /\ last'.exc = "none"
           /\ last'.warned
           /\ ligs'[last'.lig].hash.name = last'.name ]_vars

\* the constructor was given "B" for a Mol titled "A": warned, named "B"
C10_Witness ==
    /\ last.op = "init" /\ last.name = "B" /\ last.exc = "none"
    /\ last.warned
    /\ GetProp(heap[last.obj].mol, "_Name").val = "A"
    /\ ligs[last.lig].hash.name = "B"

\* what the generation step of an overriding mapper produces before it
\* stops or raises
RECURSIVE Produced(_)
Produced(gen) ==
    IF gen = << >> \/ Raises(Head(gen)) THEN << >>
    ELSE <<Head(gen).mol1_to_mol2>> \o Produced(Tail(gen))

Yielded == [k \in 1..Len(mout) |-> mout[k].mol1_to_mol2]

FirstRaise(gen) == gen[Len(Produced(gen)) + 1].raise

\* C8: for a mapper that overrides _mappings_generator, suggest_mappings
\* yields exactly what the generation step produces, in its order, and an
\* error the generation step raises reaches the caller as it is.
C8_YieldsWhatGeneratorProduces ==
    Overrides(mcls) =>
        /\ Len(Yielded) <= Len(Produced(mgen))
        /\ Yielded = SubSeq(Produced(mgen), 1, Len(Yielded))
        /\ mpc = "running" => merr = NoError
        /\ mpc = "done" =>
              /\ Yielded = Produced(mgen)
              /\ Len(Produced(mgen)) = Len(mgen)
              /\ merr = NoError
        /\ mpc = "raised" =>
              /\ Yielded = Produced(mgen)
              /\ Len(Produced(mgen)) < Len(mgen)
              /\ merr.type = FirstRaise(mgen)

\* the two mappings of test_concrete_mapper came out, in order
C8_Witness ==
    /\ mcls = "ConcreteLigandAtomMapper" /\ mpc = "done"
    /\ Len(mgen) = 2 /\ mgen[1] # mgen[2] /\ mout = mgen

\* an error raised after one mapping reached the caller
C8_WitnessError ==
    /\ mcls = "ConcreteLigandAtomMapper" /\ mpc = "raised"
    /\ Len(mout) = 1 /\ merr.type = "ValueError"

\* C9: on a mapper that does not override _mappings_generator, the first
\* attempt to consume suggest_mappings raises NotImplementedError naming
\* the instance's class and _mappings_generator, and nothing is yielded.
C9_AbstractError ==
    [][ ~Overrides(mcls) =>
          /\ mout' = << >>
          /\ mpc = "running" =>
                /\ mpc' = "raised"
                /\ merr' = [type |-> "NotImplementedError", cls |-> mcls,
                            method |-> "_mappings_generator"] ]_vars

C9_Witness ==
    /\ mcls = "BareSubclass" /\ mpc = "raised" /\ mout = << >>
    /\ merr.type = "NotImplementedError" /\ merr.cls = "BareSubclass"

====
